---- MODULE Spec2Model ----
(***************************************************************************)
(* A model of the Monkey-language front end of typescript-interpreter-2:   *)
(* the Lexer (src/lexer.ts), the token model (src/token.ts), the Pratt     *)
(* parser (src/parser.ts), the AST renderers (src/ast.ts) and the two      *)
(* line-oriented drivers (the token dump loop of src/unnamed/part_001 and  *)
(* the parse-and-print loop at the end of src/lexer.ts).                   *)
(*                                                                         *)
(* Strings of the program are sequences of one-character strings, so that  *)
(* indexing, slicing and concatenation are what the code does.  The parser *)
(* is run one call-stack step at a time: a frame per active parser method, *)
(* a step from one call or return to the next.                             *)
(***************************************************************************)
EXTENDS Integers, Sequences, FiniteSets

VARIABLES
  mode,     \* which driver handles the line: "dump" or "repl"
  line,     \* the text handed to the Lexer constructor
  lexer,    \* the Lexer object: input, position, readPosition, ch
  token,    \* the dump loop's local `token`: the last token returned
  calls,    \* how many times the dump loop has called nextToken()
  parser,   \* the Parser object: curToken, peekToken, errors
  stack,    \* the active parser methods, innermost first
  ret,      \* the value the last returning method returned
  status,   \* "lexing", "parsing", "returned", "printed", "thrown", "stopped"
  runs      \* the completed parses of this session, oldest first

vars == <<mode, line, lexer, token, calls, parser, stack, ret, status, runs>>

---------------------------------------------------------------------------
(* Bounds of the model *)

\* Longest line, in characters, given to the token dump loop.
MaxChars == 3
\* Most nextToken() calls the dump loop is followed for.
MaxCalls == 9
\* Most let statements of a line of let statements.
MaxLets == 2
\* Most words of a line made of arbitrary words.
MaxWords == 3
\* Longest errors list the parser is followed to (the list is unbounded).
MaxErrors == 5

\* The most statements of a program whose rendering is taken.
MaxStatements == 2

---------------------------------------------------------------------------
(* Text *)

Letters ==
  {"a","b","c","d","e","f","g","h","i","j","k","l","m","n","o","p","q","r",
   "s","t","u","v","w","x","y","z",
   "A","B","C","D","E","F","G","H","I","J","K","L","M","N","O","P","Q","R",
   "S","T","U","V","W","X","Y","Z","_"}

Digits == {"0","1","2","3","4","5","6","7","8","9"}

Whitespace == {" ", "\t", "\n", "\r"}

DigitValue(c) ==
  CASE c = "0" -> 0 [] c = "1" -> 1 [] c = "2" -> 2 [] c = "3" -> 3
    [] c = "4" -> 4 [] c = "5" -> 5 [] c = "6" -> 6 [] c = "7" -> 7
    [] c = "8" -> 8 [] c = "9" -> 9

\* Array.prototype.join / string concatenation of a list of strings.
RECURSIVE Join(_, _)
Join(parts, sep) ==
  IF parts = <<>> THEN <<>>
  ELSE IF Len(parts) = 1 THEN parts[1]
  ELSE parts[1] \o sep \o Join(Tail(parts), sep)

---------------------------------------------------------------------------
(* src/token.ts *)

NewToken(type, literal) == [type |-> type, literal |-> literal]

\* The own properties of the KEYWORDS object.
KEYWORDS ==
  { <<<<"f","n">>, "FUNCTION">>,
    <<<<"l","e","t">>, "LET">>,
    <<<<"t","r","u","e">>, "TRUE">>,
    <<<<"f","a","l","s","e">>, "FALSE">>,
    <<<<"i","f">>, "IF">>,
    <<<<"e","l","s","e">>, "ELSE">>,
    <<<<"r","e","t","u","r","n">>, "RETURN">> }

\* KEYWORDS is a plain object literal, so KEYWORDS[ident] also finds what it
\* inherits from Object.prototype.  Those values are functions or objects:
\* truthy, and no member of TOKENS.
ObjectPrototypeKeys ==
  { <<"c","o","n","s","t","r","u","c","t","o","r">>,
    <<"t","o","S","t","r","i","n","g">>,
    <<"v","a","l","u","e","O","f">>,
    <<"t","o","L","o","c","a","l","e","S","t","r","i","n","g">>,
    <<"h","a","s","O","w","n","P","r","o","p","e","r","t","y">>,
    <<"i","s","P","r","o","t","o","t","y","p","e","O","f">>,
    <<"p","r","o","p","e","r","t","y","I","s","E","n","u","m","e","r","a","b","l","e">>,
    <<"_","_","p","r","o","t","o","_","_">>,
    <<"_","_","d","e","f","i","n","e","G","e","t","t","e","r","_","_">>,
    <<"_","_","d","e","f","i","n","e","S","e","t","t","e","r","_","_">>,
    <<"_","_","l","o","o","k","u","p","G","e","t","t","e","r","_","_">>,
    <<"_","_","l","o","o","k","u","p","S","e","t","t","e","r","_","_">> }

\* The type of a token whose "type" is a value inherited from Object.prototype.
InheritedMember == "[Object.prototype member]"

lookupIdent(ident) ==
  IF \E kw \in KEYWORDS : kw[1] = ident
  THEN (CHOOSE kw \in KEYWORDS : kw[1] = ident)[2]
  ELSE IF ident \in ObjectPrototypeKeys THEN InheritedMember
  ELSE "IDENT"

---------------------------------------------------------------------------
(* src/lexer.ts *)

\* input[i] of a string: the character at 0-based index i, undefined past
\* the end (never read there by the code below).
CharAt(input, i) == input[i + 1]

\* readChar testing the end of the input with === where it has >=.
readChar_EndByEquality(L) ==
  [L EXCEPT !.ch = IF L.readPosition = Len(L.input) THEN ""
                   ELSE IF L.readPosition > Len(L.input) THEN "undefined"
                   ELSE CharAt(L.input, L.readPosition),
            !.position = L.readPosition,
            !.readPosition = L.readPosition + 1]

readChar(L) ==
  [L EXCEPT !.ch = IF L.readPosition >= Len(L.input) THEN ""
                   ELSE CharAt(L.input, L.readPosition),
            !.position = L.readPosition,
            !.readPosition = L.readPosition + 1]

\* peekChar answering the current character.
peekChar_Current(L) == L.ch

peekChar(L) ==
  IF L.readPosition >= Len(L.input) THEN "" ELSE CharAt(L.input, L.readPosition)

\* The constructor sets ch to input[0] (undefined for an empty input) and
\* calls readChar(), which overwrites it.
NewLexer(input) ==
  readChar([input |-> input, position |-> 0, readPosition |-> 0,
            ch |-> IF input = <<>> THEN "undefined" ELSE CharAt(input, 0)])

isLetter(ch) == ch \in Letters

isDigit(ch) == ch \in Digits

RECURSIVE skipWhitespace(_)
skipWhitespace(L) ==
  IF L.ch \in Whitespace THEN skipWhitespace(readChar(L)) ELSE L

\* The while loop of readIdentifier: the lexer once no letter is current.
RECURSIVE SkipLetters(_)
SkipLetters(L) == IF isLetter(L.ch) THEN SkipLetters(readChar(L)) ELSE L

\* The while loop of readNumber.
RECURSIVE SkipDigits(_)
SkipDigits(L) == IF isDigit(L.ch) THEN SkipDigits(readChar(L)) ELSE L

\* input.slice(from, to) for 0 <= from <= to.
Slice(input, from, to) ==
  SubSeq(input, from + 1, IF to > Len(input) THEN Len(input) ELSE to)

\* readIdentifier slicing one character short of where the loop stopped.
readIdentifier_ShortSlice(L) ==
  LET L2 == SkipLetters(L)
  IN  [lexer |-> L2, literal |-> Slice(L.input, L.position, L2.position - 1)]

readIdentifier(L) ==
  LET L2 == SkipLetters(L)
  IN  [lexer |-> L2, literal |-> Slice(L.input, L.position, L2.position)]

\* readNumber returning the first digit of the number it has read.
readNumber_FirstDigit(L) ==
  LET L2 == SkipDigits(L)
  IN  [lexer |-> L2, literal |-> Slice(L.input, L.position, L.position + 1)]

readNumber(L) ==
  LET L2 == SkipDigits(L)
  IN  [lexer |-> L2, literal |-> Slice(L.input, L.position, L2.position)]

\* nextToken's switch without its case for the slash.
SingleCharTokens_NoSlash == {";", "(", ")", ",", "+", "{", "}", "-", "*", "<", ">"}

\* The token kinds of the one-character cases of nextToken's switch.
SingleCharTokens == {";", "(", ")", ",", "+", "{", "}", "-", "*", "/", "<", ">"}

\* The default branch of the switch: identifiers and numbers return early
\* (readIdentifier and readNumber have advanced); the ILLEGAL token returns
\* early too.
LexDefault(L) ==
  IF isLetter(L.ch)
  THEN LET r == readIdentifier(L)
       IN  [lexer |-> r.lexer, token |-> NewToken(lookupIdent(r.literal), r.literal)]
  ELSE IF isDigit(L.ch)
  THEN LET r == readNumber(L)
       IN  [lexer |-> r.lexer, token |-> NewToken("INT", r.literal)]
  ELSE [lexer |-> L, token |-> NewToken("ILLEGAL", <<L.ch>>)]

\* Lexer.nextToken: the lexer after the call and the token returned.
LexerNextToken(L0) ==
  LET L == skipWhitespace(L0)
  IN  CASE L.ch = "=" ->
             IF peekChar(L) = "="
             THEN [lexer |-> readChar(readChar(L)), token |-> NewToken("==", <<"=", "=">>)]
             ELSE [lexer |-> readChar(L), token |-> NewToken("=", <<L.ch>>)]
        [] L.ch = "!" ->
             IF peekChar(L) = "="
             THEN [lexer |-> readChar(readChar(L)), token |-> NewToken("!=", <<"!", "=">>)]
             ELSE [lexer |-> readChar(L), token |-> NewToken("!", <<L.ch>>)]
        [] L.ch \in SingleCharTokens ->
             [lexer |-> readChar(L), token |-> NewToken(L.ch, <<L.ch>>)]
        [] L.ch = "" ->
             [lexer |-> readChar(L), token |-> NewToken("EOF", <<>>)]
        [] OTHER -> LexDefault(L)

---------------------------------------------------------------------------
(* src/ast.ts: the node builders *)

\* null, and an absent (undefined) value: both are falsy and both render as
\* "undefined" through `${x?.string()}`.
Null == [kind |-> "null"]

\* What a template literal prints for undefined.
UndefinedText == <<"u","n","d","e","f","i","n","e","d">>

\* An array that a nullable field or a return value holds (parameters,
\* arguments): a value of its own kind, as null is.
Array(items) == [kind |-> "Array", items |-> items]

Program(statements) == [kind |-> "Program", statements |-> statements]

LetStatement(tok, name, value) ==
  [kind |-> "LetStatement", token |-> tok, name |-> name, value |-> value]

ReturnStatement(tok, returnValue) ==
  [kind |-> "ReturnStatement", token |-> tok, returnValue |-> returnValue]

ExpressionStatement(tok, expression) ==
  [kind |-> "ExpressionStatement", token |-> tok, expression |-> expression]

BlockStatement(tok, statements) ==
  [kind |-> "BlockStatement", token |-> tok, statements |-> statements]

Identifier(tok, value) == [kind |-> "Identifier", token |-> tok, value |-> value]

IntegerLiteral(tok, value) == [kind |-> "IntegerLiteral", token |-> tok, value |-> value]

Boolean(tok, value) == [kind |-> "Boolean", token |-> tok, value |-> value]

FunctionLiteral(tok, parameters, body) ==
  [kind |-> "FunctionLiteral", token |-> tok, parameters |-> parameters, body |-> body]

IfExpression(tok, condition, consequence, alternative) ==
  [kind |-> "IfExpression", token |-> tok, condition |-> condition,
   consequence |-> consequence, alternative |-> alternative]

PrefixExpression(tok, operator, right) ==
  [kind |-> "PrefixExpression", token |-> tok, operator |-> operator, right |-> right]

InfixExpression(tok, left, operator, right) ==
  [kind |-> "InfixExpression", token |-> tok, left |-> left, operator |-> operator,
   right |-> right]

CallExpression(tok, fn, args) ==
  [kind |-> "CallExpression", token |-> tok, function |-> fn, arguments |-> args]

\* tokenLiteral() of a statement or expression node.
tokenLiteral(node) == node.token.literal

---------------------------------------------------------------------------
(* src/ast.ts: string() *)

RECURSIVE String(_)

\* `${x?.string()}`: the rendering of x, or "undefined" when x is absent.
OptString(x) == IF x = Null THEN UndefinedText ELSE String(x)

\* The map putting each statement on a line of its own.
StringEach_Lines(nodes) == [i \in 1..Len(nodes) |-> String(nodes[i]) \o <<"\n">>]

\* statements.map((statement) => statement.string())
StringEach(nodes) == [i \in 1..Len(nodes) |-> String(nodes[i])]

String(node) ==
  CASE node.kind = "Program" -> Join(StringEach(node.statements), <<>>)
    [] node.kind = "LetStatement" ->
         tokenLiteral(node) \o <<" ">>
           \o (IF node.name = Null THEN UndefinedText ELSE node.name.value)
           \o <<" ", "=", " ">> \o OptString(node.value) \o <<";">>
    [] node.kind = "ReturnStatement" ->
         tokenLiteral(node) \o <<" ">> \o OptString(node.returnValue) \o <<";">>
    [] node.kind = "ExpressionStatement" ->
         IF node.expression = Null THEN <<>> ELSE String(node.expression)
    [] node.kind = "BlockStatement" -> Join(StringEach(node.statements), <<>>)
    [] node.kind = "Identifier" -> node.value
    [] node.kind = "IntegerLiteral" -> node.token.literal
    [] node.kind = "Boolean" -> node.token.literal
    [] node.kind = "FunctionLiteral" ->
         tokenLiteral(node) \o <<"(">>
           \o (IF node.parameters = Null THEN <<>>
               ELSE Join(StringEach(node.parameters.items), <<",", " ">>))
           \o <<")", " ">> \o OptString(node.body)
    [] node.kind = "IfExpression" ->
         <<"i", "f", " ">> \o OptString(node.condition) \o <<" ">>
           \o OptString(node.consequence) \o <<" ">>
           \o (IF node.alternative = Null THEN <<>>
               ELSE <<"e", "l", "s", "e", " ">> \o String(node.alternative))
    [] node.kind = "PrefixExpression" ->
         <<"(">> \o node.operator \o OptString(node.right) \o <<")">>
    [] node.kind = "InfixExpression" ->
         <<"(">> \o OptString(node.left) \o <<" ">> \o node.operator \o <<" ">>
           \o OptString(node.right) \o <<")">>
    [] node.kind = "CallExpression" ->
         OptString(node.function) \o <<"(">>
           \o (IF node.arguments = Null THEN UndefinedText
               ELSE Join(StringEach(node.arguments.items), <<",">>))
           \o <<")">>

\* Whether string() raises a TypeError: CallExpression.string calls
\* arg.string() on every argument without `?.`, so a null argument throws.
RECURSIVE StringThrows(_)
StringThrows(node) ==
  CASE node = Null -> FALSE
    [] node.kind \in {"Program", "BlockStatement"} ->
         \E i \in 1..Len(node.statements) : StringThrows(node.statements[i])
    [] node.kind = "LetStatement" -> StringThrows(node.value)
    [] node.kind = "ReturnStatement" -> StringThrows(node.returnValue)
    [] node.kind = "ExpressionStatement" -> StringThrows(node.expression)
    [] node.kind = "FunctionLiteral" -> StringThrows(node.body)
    [] node.kind = "IfExpression" ->
         \/ StringThrows(node.condition)
         \/ StringThrows(node.consequence)
         \/ StringThrows(node.alternative)
    [] node.kind = "PrefixExpression" -> StringThrows(node.right)
    [] node.kind = "InfixExpression" ->
         StringThrows(node.left) \/ StringThrows(node.right)
    [] node.kind = "CallExpression" ->
         \/ StringThrows(node.function)
         \/ /\ node.arguments # Null
            /\ \E i \in 1..Len(node.arguments.items) :
                 \/ node.arguments.items[i] = Null
                 \/ StringThrows(node.arguments.items[i])
    [] OTHER -> FALSE

---------------------------------------------------------------------------
(* src/parser.ts: precedences and the handler tables *)

LOWEST == 0
EQUALS == 1
LESSGREATER == 2
SUM == 3
PRODUCT == 4
PREFIX == 5
CALL == 6

\* PRECENDENCE_TABLE[type], undefined (here -1) for a type it has no entry for.
PRECENDENCE_TABLE(type) ==
  CASE type \in {"==", "!="} -> EQUALS
    [] type \in {"<", ">"} -> LESSGREATER
    [] type \in {"+", "-"} -> SUM
    [] type \in {"/", "*"} -> PRODUCT
    [] type = "(" -> CALL
    [] OTHER -> -1

\* prefixParseFns[type] as the constructor registers them; "undefined" for
\* a type with no handler.
prefixParseFns(type) ==
  CASE type = "IDENT" -> "parseIdentifier"
    [] type = "INT" -> "parseIntegerLiteral"
    [] type \in {"!", "-"} -> "parsePrefixExpression"
    [] type \in {"TRUE", "FALSE"} -> "parseBoolean"
    [] type = "(" -> "parseGroupedExpression"
    [] type = "IF" -> "parseIfExpression"
    [] type = "FUNCTION" -> "parseFunctionLiteral"
    [] OTHER -> "undefined"

\* The constructor without its registerInfix call for NOT_EQ.
infixParseFns_NotEqUnregistered(type) ==
  CASE type \in {"+", "-", "/", "*", "==", "<", ">"} -> "parseInfixExpression"
    [] type = "(" -> "parseCallExpression"
    [] OTHER -> "undefined"

infixParseFns(type) ==
  CASE type \in {"+", "-", "/", "*", "==", "!=", "<", ">"} -> "parseInfixExpression"
    [] type = "(" -> "parseCallExpression"
    [] OTHER -> "undefined"

---------------------------------------------------------------------------
(* src/parser.ts: the Parser object and its helper methods.                *)
(* A machine m is the Parser with its Lexer: lexer, curToken, peekToken,   *)
(* errors, and thrown, set once an exception has been raised.              *)

\* An absent token (peekToken's type allows undefined).
NoToken == [type |-> "undefined", literal |-> <<>>]

\* The string a one-character-string sequence stands for.
RECURSIVE Text(_)
Text(chars) == IF chars = <<>> THEN "" ELSE Head(chars) \o Text(Tail(chars))

\* nextToken shifting the window without reading the token that refills it.
nextToken_NoRefill(m) ==
  IF m.thrown THEN m
  ELSE IF m.peekToken = NoToken THEN [m EXCEPT !.thrown = TRUE]
  ELSE [m EXCEPT !.curToken = m.peekToken, !.peekToken = NoToken]

\* Parser.nextToken
nextToken(m) ==
  IF m.thrown THEN m
  ELSE IF m.peekToken = NoToken THEN [m EXCEPT !.thrown = TRUE]
  ELSE LET r == LexerNextToken(m.lexer)
       IN  [m EXCEPT !.curToken = m.peekToken, !.peekToken = r.token,
                     !.lexer = r.lexer]

\* The constructor keeping its first read for both tokens of the window.
NewParser_OneRead(L) ==
  LET first == LexerNextToken(L)
  IN  [lexer |-> first.lexer, curToken |-> first.token,
       peekToken |-> first.token, errors |-> <<>>, thrown |-> FALSE]

\* The Parser constructor: two reads prime the window.
NewParser(L) ==
  LET first == LexerNextToken(L)
      second == LexerNextToken(first.lexer)
  IN  [lexer |-> second.lexer, curToken |-> first.token,
       peekToken |-> second.token, errors |-> <<>>, thrown |-> FALSE]

curTokenIs(m, type) == m.curToken.type = type

peekTokenIs(m, t) == m.peekToken.type = t

peekError(m, t) ==
  [m EXCEPT !.errors = Append(@,
     "expected next token to be " \o t \o ", got " \o m.peekToken.type \o " instead")]

\* noPrefixParseFnError recording nothing.
noPrefixParseFnError_Silent(m, t) == m

noPrefixParseFnError(m, t) ==
  [m EXCEPT !.errors = Append(@, "no prefix parse function for " \o t \o " found")]

\* expectPeek advancing whether or not the lookahead token is the expected one.
expectPeek_Advancing(m, t) ==
  IF peekTokenIs(m, t)
  THEN [m |-> nextToken(m), ok |-> TRUE]
  ELSE [m |-> nextToken(peekError(m, t)), ok |-> FALSE]

\* expectPeek: the machine after the call and the boolean returned.
expectPeek(m, t) ==
  IF peekTokenIs(m, t)
  THEN [m |-> nextToken(m), ok |-> TRUE]
  ELSE [m |-> peekError(m, t), ok |-> FALSE]

\* curPrecedence answering LOWEST for every token.
curPrecedence_Lowest(m) == LOWEST

curPrecedence(m) ==
  LET p == PRECENDENCE_TABLE(m.curToken.type) IN IF p > 0 THEN p ELSE LOWEST

peekPrecedence(m) ==
  IF m.peekToken = NoToken THEN LOWEST
  ELSE LET p == PRECENDENCE_TABLE(m.peekToken.type) IN IF p > 0 THEN p ELSE LOWEST

---------------------------------------------------------------------------
(* src/parser.ts: the parsing methods, one call-stack step each.           *)
(* A frame is a method's activation: fn, the method; pc, where it resumes; *)
(* node, the node it is building (on entry to an infix handler, its        *)
(* argument); precedence, parseExpression's argument; args, the list       *)
(* parseCallArguments is building.  A step runs the innermost frame to its *)
(* next call of a method that has a frame, or to its return.               *)

Frame(fn) == [fn |-> fn, pc |-> 0, node |-> Null, precedence |-> LOWEST, args |-> <<>>]

ExpressionFrame(precedence) == [Frame("parseExpression") EXCEPT !.precedence = precedence]

\* The step's outcomes: the frame calls `callee` and will resume as `frame`,
\* or it returns `value`.
Calls(m, frame, callee) ==
  [m |-> m, op |-> "call", frame |-> frame, callee |-> callee, value |-> Null]

Returns(m, value) ==
  [m |-> m, op |-> "return", frame |-> Null, callee |-> Null, value |-> value]

\* parseStatement returns what the method it dispatches to returns: the
\* frame of that method.
parseStatement(m) ==
  CASE m.curToken.type = "LET" -> Frame("parseLetStatement")
    [] m.curToken.type = "RETURN" -> Frame("parseReturnStatement")
    [] OTHER -> Frame("parseExpressionStatement")

\* parseProgram: pc 0 on entry, pc 1 when parseStatement has returned r.
parseProgram(m, f, r) ==
  LET program == IF f.pc = 0 THEN Program(<<>>)
                 ELSE IF r # Null
                      THEN Program(Append(f.node.statements, r))
                      ELSE f.node
      m1 == IF f.pc = 0 THEN m ELSE nextToken(m)
  IN  IF ~curTokenIs(m1, "EOF")
      THEN Calls(m1, [f EXCEPT !.pc = 1, !.node = program], parseStatement(m1))
      ELSE Returns(m1, program)

\* parseLetStatement: pc 1 when parseExpression has returned r.
parseLetStatement(m, f, r) ==
  IF f.pc = 0
  THEN LET letStatement == LetStatement(m.curToken, Null, Null)
           e1 == expectPeek(m, "IDENT")
           named == [letStatement EXCEPT
                       !.name = Identifier(e1.m.curToken, e1.m.curToken.literal)]
           e2 == expectPeek(e1.m, "=")
       IN  IF ~e1.ok THEN Returns(e1.m, Null)
           ELSE IF ~e2.ok THEN Returns(e2.m, Null)
           ELSE Calls(nextToken(e2.m), [f EXCEPT !.pc = 1, !.node = named],
                      ExpressionFrame(LOWEST))
  ELSE LET letStatement == [f.node EXCEPT !.value = r]
       IN  Returns(IF ~peekTokenIs(m, ";") THEN nextToken(m) ELSE m, letStatement)

\* parseReturnStatement testing the terminator the wrong way round.
parseReturnStatement_Inverted(m, f, r) ==
  IF f.pc = 0
  THEN Calls(nextToken(m),
             [f EXCEPT !.pc = 1, !.node = ReturnStatement(m.curToken, Null)],
             ExpressionFrame(LOWEST))
  ELSE Returns(IF ~peekTokenIs(m, ";") THEN nextToken(m) ELSE m,
               [f.node EXCEPT !.returnValue = r])

parseReturnStatement(m, f, r) ==
  IF f.pc = 0
  THEN Calls(nextToken(m),
             [f EXCEPT !.pc = 1, !.node = ReturnStatement(m.curToken, Null)],
             ExpressionFrame(LOWEST))
  ELSE Returns(IF peekTokenIs(m, ";") THEN nextToken(m) ELSE m,
               [f.node EXCEPT !.returnValue = r])

\* parseExpressionStatement leaving a terminator unread.
parseExpressionStatement_KeepsTerminator(m, f, r) ==
  IF f.pc = 0
  THEN Calls(m, [f EXCEPT !.pc = 1, !.node = ExpressionStatement(m.curToken, Null)],
             ExpressionFrame(LOWEST))
  ELSE Returns(m, [f.node EXCEPT !.expression = r])

parseExpressionStatement(m, f, r) ==
  IF f.pc = 0
  THEN Calls(m, [f EXCEPT !.pc = 1, !.node = ExpressionStatement(m.curToken, Null)],
             ExpressionFrame(LOWEST))
  ELSE Returns(IF peekTokenIs(m, ";") THEN nextToken(m) ELSE m,
               [f.node EXCEPT !.expression = r])

parseIdentifier(m) == Identifier(m.curToken, m.curToken.literal)

parseBoolean(m) == Boolean(m.curToken, curTokenIs(m, "TRUE"))

\* Number.isNaN(parseInt(literal)): parseInt reads the leading digits.
NaN == -1

RECURSIVE DigitsValue(_, _)
DigitsValue(chars, acc) ==
  IF chars = <<>> \/ ~isDigit(Head(chars)) THEN acc
  ELSE DigitsValue(Tail(chars), 10 * acc + DigitValue(Head(chars)))

parseInt(literal) ==
  IF literal = <<>> \/ ~isDigit(Head(literal)) THEN NaN ELSE DigitsValue(literal, 0)

\* parseIntegerLiteral: the machine after the call and the node returned.
parseIntegerLiteral(m) ==
  IF parseInt(m.curToken.literal) = NaN
  THEN [m |-> [m EXCEPT !.errors = Append(@,
                  "could not parse " \o Text(m.curToken.literal) \o " as integer")],
        value |-> Null]
  ELSE [m |-> m, value |-> IntegerLiteral(m.curToken, parseInt(m.curToken.literal))]

\* The loop of parseExpression going on at an operator of the same level.
ExpressionLoop_AbsorbsEqual(m, f, leftExp) ==
  IF /\ ~peekTokenIs(m, ";")
     /\ f.precedence <= peekPrecedence(m)
     /\ m.peekToken # NoToken
  THEN LET infix == infixParseFns(m.peekToken.type)
       IN  IF infix = "undefined" THEN Returns(m, leftExp)
           ELSE Calls(nextToken(m), [f EXCEPT !.pc = 1],
                      [Frame(infix) EXCEPT !.node = leftExp])
  ELSE Returns(m, leftExp)

\* The while loop of parseExpression, entered with leftExp.
ExpressionLoop(m, f, leftExp) ==
  IF /\ ~peekTokenIs(m, ";")
     /\ f.precedence < peekPrecedence(m)
     /\ m.peekToken # NoToken
  THEN LET infix == infixParseFns(m.peekToken.type)
       IN  IF infix = "undefined" THEN Returns(m, leftExp)
           ELSE Calls(nextToken(m), [f EXCEPT !.pc = 1],
                      [Frame(infix) EXCEPT !.node = leftExp])
  ELSE Returns(m, leftExp)

\* parseExpression: pc 1 when a prefix or infix handler has returned r.
\* The handlers that call no parsing method run inside the step.
parseExpression(m, f, r) ==
  IF f.pc = 0
  THEN LET prefix == prefixParseFns(m.curToken.type)
       IN  CASE prefix = "undefined" ->
                  Returns(noPrefixParseFnError(m, m.curToken.type), Null)
             [] prefix = "parseIdentifier" -> ExpressionLoop(m, f, parseIdentifier(m))
             [] prefix = "parseBoolean" -> ExpressionLoop(m, f, parseBoolean(m))
             [] prefix = "parseIntegerLiteral" ->
                  LET lit == parseIntegerLiteral(m)
                  IN  ExpressionLoop(lit.m, f, lit.value)
             [] OTHER -> Calls(m, [f EXCEPT !.pc = 1], Frame(prefix))
  ELSE ExpressionLoop(m, f, r)

parsePrefixExpression(m, f, r) ==
  IF f.pc = 0
  THEN Calls(nextToken(m),
             [f EXCEPT !.pc = 1,
                       !.node = PrefixExpression(m.curToken, m.curToken.literal, Null)],
             ExpressionFrame(PREFIX))
  ELSE Returns(m, [f.node EXCEPT !.right = r])

\* parseInfixExpression(left): the frame's node is `left` on entry.
parseInfixExpression(m, f, r) ==
  IF f.pc = 0
  THEN Calls(nextToken(m),
             [f EXCEPT !.pc = 1,
                       !.node = InfixExpression(m.curToken, f.node,
                                                m.curToken.literal, Null)],
             ExpressionFrame(curPrecedence(m)))
  ELSE Returns(m, [f.node EXCEPT !.right = r])

parseGroupedExpression(m, f, r) ==
  IF f.pc = 0
  THEN Calls(nextToken(m), [f EXCEPT !.pc = 1], ExpressionFrame(LOWEST))
  ELSE LET e == expectPeek(m, ")")
       IN  IF ~e.ok THEN Returns(e.m, Null) ELSE Returns(e.m, r)

\* parseIfExpression: pc 1 after the condition, pc 2 after the consequence,
\* pc 3 after the alternative.
parseIfExpression(m, f, r) ==
  CASE f.pc = 0 ->
         LET e == expectPeek(m, "(")
         IN  IF ~e.ok THEN Returns(e.m, Null)
             ELSE Calls(nextToken(e.m),
                        [f EXCEPT !.pc = 1,
                                  !.node = IfExpression(m.curToken, Null, Null, Null)],
                        ExpressionFrame(LOWEST))
    [] f.pc = 1 ->
         LET e1 == expectPeek(m, ")")
             e2 == expectPeek(e1.m, "{")
         IN  IF ~e1.ok THEN Returns(e1.m, Null)
             ELSE IF ~e2.ok THEN Returns(e2.m, Null)
             ELSE Calls(e2.m, [f EXCEPT !.pc = 2, !.node.condition = r],
                        Frame("parseBlockStatement"))
    [] f.pc = 2 ->
         LET expression == [f.node EXCEPT !.consequence = r]
             m1 == nextToken(m)
             e == expectPeek(m1, "{")
         IN  IF peekTokenIs(m, "ELSE")
             THEN IF ~e.ok THEN Returns(e.m, Null)
                  ELSE Calls(e.m, [f EXCEPT !.pc = 3, !.node = expression],
                             Frame("parseBlockStatement"))
             ELSE Returns(m, expression)
    [] f.pc = 3 -> Returns(m, [f.node EXCEPT !.alternative = r])

\* The while loop of parseFunctionParameters.
RECURSIVE ParametersLoop(_, _)
ParametersLoop(m, identifiers) ==
  IF peekTokenIs(m, ",") /\ ~m.thrown
  THEN LET m2 == nextToken(nextToken(m))
       IN  ParametersLoop(m2, Append(identifiers,
                                     Identifier(m2.curToken, m2.curToken.literal)))
  ELSE [m |-> m, identifiers |-> identifiers]

\* parseFunctionParameters: the machine after the call and the list (or
\* null) returned.
parseFunctionParameters(m) ==
  IF peekTokenIs(m, ")")
  THEN [m |-> nextToken(m), value |-> Array(<<>>)]
  ELSE LET m1 == nextToken(m)
           loop == ParametersLoop(m1, <<Identifier(m1.curToken, m1.curToken.literal)>>)
           e == expectPeek(loop.m, ")")
       IN  IF ~e.ok THEN [m |-> e.m, value |-> Null]
           ELSE [m |-> e.m, value |-> Array(loop.identifiers)]

parseFunctionLiteral(m, f, r) ==
  IF f.pc = 0
  THEN LET fn == FunctionLiteral(m.curToken, Null, Null)
           e1 == expectPeek(m, "(")
           parameters == parseFunctionParameters(e1.m)
           e2 == expectPeek(parameters.m, "{")
       IN  IF ~e1.ok THEN Returns(e1.m, Null)
           ELSE IF ~e2.ok THEN Returns(e2.m, Null)
           ELSE Calls(e2.m,
                      [f EXCEPT !.pc = 1,
                                !.node = [fn EXCEPT !.parameters = parameters.value]],
                      Frame("parseBlockStatement"))
  ELSE Returns(m, [f.node EXCEPT !.body = r])

\* parseCallExpression(fn): the frame's node is `fn` on entry.
parseCallExpression(m, f, r) ==
  IF f.pc = 0
  THEN Calls(m, [f EXCEPT !.pc = 1, !.node = CallExpression(m.curToken, f.node, Array(<<>>))],
             Frame("parseCallArguments"))
  ELSE Returns(m, [f.node EXCEPT !.arguments = r])

\* parseCallArguments: pc 1 when parseExpression has returned the argument r.
parseCallArguments(m, f, r) ==
  IF f.pc = 0
  THEN IF peekTokenIs(m, ")")
       THEN Returns(nextToken(m), Array(<<>>))
       ELSE Calls(nextToken(m), [f EXCEPT !.pc = 1, !.args = <<>>],
                  ExpressionFrame(LOWEST))
  ELSE LET args == Append(f.args, r)
           e == expectPeek(m, ")")
       IN  IF peekTokenIs(m, ",")
           THEN Calls(nextToken(nextToken(m)), [f EXCEPT !.args = args],
                      ExpressionFrame(LOWEST))
           ELSE IF ~e.ok THEN Returns(e.m, Null)
           ELSE Returns(e.m, Array(args))

\* parseBlockStatement: pc 1 when parseStatement has returned r.
parseBlockStatement(m, f, r) ==
  LET blockStatement ==
        IF f.pc = 0 THEN BlockStatement(m.curToken, <<>>)
        ELSE IF r # Null
             THEN [f.node EXCEPT !.statements = Append(@, r)]
             ELSE f.node
      m1 == nextToken(m)
  IN  IF ~curTokenIs(m1, "}")
      THEN Calls(m1, [f EXCEPT !.pc = 1, !.node = blockStatement], parseStatement(m1))
      ELSE Returns(m1, blockStatement)

-------------------------------------------------------------------------------------------------------------------------------------------------
(* The lines the drivers are given.  A line is written as its words, each  *)
(* word the name of a lexeme; Spell gives a word's characters.             *)

Spell(word) ==
  CASE word = "let" -> <<"l","e","t">>
    [] word = "return" -> <<"r","e","t","u","r","n">>
    [] word = "if" -> <<"i","f">>
    [] word = "else" -> <<"e","l","s","e">>
    [] word = "fn" -> <<"f","n">>
    [] word = "true" -> <<"t","r","u","e">>
    [] word = "false" -> <<"f","a","l","s","e">>
    [] word = "foobar" -> <<"f","o","o","b","a","r">>
    [] word = "Let" -> <<"L","e","t">>
    [] word = "lets" -> <<"l","e","t","s">>
    [] word = "constructor" -> <<"c","o","n","s","t","r","u","c","t","o","r">>
    [] word = "838383" -> <<"8","3","8","3","8","3">>
    [] word = "993322" -> <<"9","9","3","3","2","2">>
    [] word = "myVar" -> <<"m","y","V","a","r">>
    [] word = "otherVar" -> <<"o","t","h","e","r","V","a","r">>
    [] word = "10" -> <<"1","0">>
    [] word = "==" -> <<"=","=">>
    [] word = "!=" -> <<"!","=">>
    [] OTHER -> <<word>>

SpellEach(words) == [i \in 1..Len(words) |-> Spell(words[i])]

\* The line whose words are separated by single spaces.
Line(words) == Join(SpellEach(words), <<" ">>)

\* All sequences of at most n elements of S.
SeqsUpTo(S, n) == UNION {[1..k -> S] : k \in 0..n}

\* The characters the dump loop's lines are made of: each class of
\* nextToken's switch, and one character ("@") of none.
DumpAlphabet == {"=", "!", ";", "+", "a", "_", "7", " ", "@"}

\* Lines of a letter and the whitespace characters other than the space.
WhitespaceInputs == SeqsUpTo({"a", "\t", "\n", "\r"}, MaxChars)

DumpInputs ==
  SeqsUpTo(DumpAlphabet, MaxChars)
    \cup WhitespaceInputs
    \cup {Spell(w) : w \in {"let", "return", "if", "else", "fn", "true", "false",
                            "foobar", "Let", "lets", "constructor", "838383"}}

\* The characters nextToken's switch has a case of their own for.
Punctuation ==
  {"=", "!", "+", "-", "*", "/", "<", ">", ",", ";", "(", ")", "{", "}"}

\* The line of the lexer's first test.
PunctuationTestInput == <<"=", "+", "(", ")", "{", "}", ",", ";">>

\* The inputs of a client that keeps calling nextToken.
LexInputs ==
  DumpInputs \cup SeqsUpTo(Punctuation, 2) \cup {PunctuationTestInput}

\* N statements `let <identifier> = <integer>;`.
LetChoices == {<<"x", "5">>, <<"y", "10">>, <<"foobar", "838383">>}

LetPrograms == UNION {[1..n -> LetChoices] : n \in 1..MaxLets}

RECURSIVE LetWords(_)
LetWords(choices) ==
  IF choices = <<>> THEN <<>>
  ELSE <<"let", Head(choices)[1], "=", Head(choices)[2], ";">> \o LetWords(Tail(choices))

\* A let statement with its identifier missing.
BadLetIntegers == {"5", "10", "838383"}

BadLetWords(int) == <<"let", "=", int, ";">>

\* A statement, terminated or not, and what follows it on the line.
FirstStatements ==
  { <<"let", "x", "=", "5">>, <<"let", "x", "=", "a", "+", "b">>,
    <<"return", "5">>, <<"return", "a", "*", "b">>,
    <<"a">>, <<"a", "+", "b">>, <<"!", "a">>, <<"f", "(", "a", ")">> }

Followers == { <<>>, <<"y">>, <<"let", "y", "=", "7">>, <<"return", "y">> }

FollowWords(first, terminated, follower) ==
  first \o (IF terminated THEN <<";">> ELSE <<>>) \o follower

\* Two binary operators, or a prefix and a binary operator, between operands.
BinaryOperators == {"==", "!=", "<", ">", "+", "-", "*", "/"}

PrefixOperators == {"!", "-"}

InfixWords(op1, op2) == <<"a", op1, "b", op2, "c">>

PrefixWords(pre, op) == <<pre, "a", op, "b">>

CallWords(op) == <<"a", op, "b", "(", "c", ")">>

PrefixCallWords(pre) == <<pre, "a", "(", "b", ")">>

\* An integer, a binary operator and an integer.
IntegerChoices == {<<"5", 5>>, <<"10", 10>>, <<"838383", 838383>>}

IntegerInfixWords(int1, op, int2) == <<int1, op, int2>>

\* N statements `return <integer>;`.
ReturnChoices == {"5", "10", "993322"}

ReturnPrograms == UNION {[1..n -> ReturnChoices] : n \in 1..MaxLets}

RECURSIVE ReturnWords(_)
ReturnWords(choices) ==
  IF choices = <<>> THEN <<>>
  ELSE <<"return", Head(choices), ";">> \o ReturnWords(Tail(choices))

\* One expression and its terminator.
SingleExpressions ==
  { <<"x">>, <<"foobar">>, <<"5">>, <<"838383">>, <<"true">>, <<"false">>,
    <<"!", "x">>, <<"-", "x">>, <<"!", "5">>, <<"-", "5">>, <<"!", "true">> }

TerminatedWords(expression) == expression \o <<";">>

\* Expressions of every kind the parser has a handler for, some malformed.
Expressions ==
  { <<"x">>, <<"5">>, <<"true">>, <<"!", "x">>, <<"x", "+", "5">>,
    <<"(", "x", "+", "5", ")", "*", "y">>,
    <<"f", "(", ")">>, <<"f", "(", "x", ",", "5", ")">>,
    <<"if", "(", "x", "<", "y", ")", "{", "x", "}">>,
    <<"if", "(", "x", ")", "{", "x", ";", "}", "else", "{", "y", "}">>,
    <<"fn", "(", ")", "{", "}">>,
    <<"fn", "(", "x", ",", "y", ")", "{", "x", "+", "y", ";", "}">>,
    <<"fn", "(", "x", ")", "{", "return", "x", ";", "}">>,
    <<"fn", "(", "x", ")", "{", "let", "y", "=", "x", "}">>,
    <<"fn", "(", "5", ")", "{", "}">>,
    <<"if", "(", "x", ")", "{">>,
    <<"if", "(", "x", ")", "{", "!", "}">>,
    <<"if", "x", "{", "y", "}">>,
    <<"f", "(", "x">>, <<"f", "(", ",", ")">>, <<"(", "x">>,
    <<"fn", "(", "x", "{", "}">>, <<"fn", "x">>,
    <<"if", "+", "5">>, <<"fn", "(", "x", ")", "(", "y", ")">>,
    <<"x", "@">>, <<"constructor">> }

\* How an expression is made a statement.
StatementForms == {"expression", "let", "return"}

StatementWords(form, expression, terminated) ==
  (CASE form = "let" -> <<"let", "z", "=">>
     [] form = "return" -> <<"return">>
     [] OTHER -> <<>>)
    \o expression \o (IF terminated THEN <<";">> ELSE <<>>)

\* Trees built node by node, as the AST test builds its Program: a value is
\* an identifier or an integer, a statement a let, a return or an expression
\* statement of a value.
AstNames == {"myVar"}

AstValues == {"myVar", "otherVar", "5"}

ValueNode(v) ==
  IF v = "5" THEN IntegerLiteral(NewToken("INT", Spell(v)), 5)
  ELSE Identifier(NewToken("IDENT", Spell(v)), Spell(v))

StatementChoices ==
  {<<"let", n, v>> : n \in AstNames, v \in AstValues}
    \cup {<<k, "", v>> : k \in {"return", "expression"}, v \in AstValues}

StatementNode(c) ==
  CASE c[1] = "let" ->
         LetStatement(NewToken("LET", Spell("let")),
                      Identifier(NewToken("IDENT", Spell(c[2])), Spell(c[2])),
                      ValueNode(c[3]))
    [] c[1] = "return" ->
         ReturnStatement(NewToken("RETURN", Spell("return")), ValueNode(c[3]))
    [] OTHER -> ExpressionStatement(ValueNode(c[3]).token, ValueNode(c[3]))

StatementNodes(choices) == [i \in 1..Len(choices) |-> StatementNode(choices[i])]

BlockNode(choices) == BlockStatement(NewToken("{", <<"{">>), StatementNodes(choices))

\* A tree to render: a Program or a BlockStatement of some statements, or an
\* IfExpression with or without an alternative.
AstChoices ==
  [root : {"Program", "BlockStatement"}, condition : {""},
   statements : SeqsUpTo(StatementChoices, MaxStatements),
   else : {FALSE}, alternative : {<<>>}]
    \cup [root : {"IfExpression"}, condition : AstValues,
          statements : SeqsUpTo(StatementChoices, 1),
          else : {FALSE}, alternative : {<<>>}]
    \cup [root : {"IfExpression"}, condition : AstValues,
          statements : SeqsUpTo(StatementChoices, 1),
          else : {TRUE}, alternative : SeqsUpTo(StatementChoices, 1)]

AstNode(c) ==
  CASE c.root = "Program" -> Program(StatementNodes(c.statements))
    [] c.root = "BlockStatement" -> BlockNode(c.statements)
    [] OTHER ->
         IfExpression(NewToken("IF", Spell("if")), ValueNode(c.condition),
                      BlockNode(c.statements),
                      IF c.else THEN BlockNode(c.alternative) ELSE Null)

\* The words of the lines of at most MaxWords words.
Vocabulary ==
  {"x", "5", "+", "(", ")", ";", "!", "let", "=", "{", ",", "return"}

ReplInputs ==
  {Line(LetWords(p)) : p \in LetPrograms}
    \cup {Line(BadLetWords(i)) : i \in BadLetIntegers}
    \cup {Line(FollowWords(s, t, f)) :
            s \in FirstStatements, t \in BOOLEAN, f \in Followers}
    \cup {Line(InfixWords(o1, o2)) : o1 \in BinaryOperators, o2 \in BinaryOperators}
    \cup {Line(PrefixWords(p, o)) : p \in PrefixOperators, o \in BinaryOperators}
    \cup {Line(CallWords(o)) : o \in BinaryOperators}
    \cup {Line(PrefixCallWords(p)) : p \in PrefixOperators}
    \cup {Line(IntegerInfixWords(i[1], o, j[1])) :
            i \in IntegerChoices, o \in BinaryOperators, j \in IntegerChoices}
    \cup {Line(ReturnWords(p)) : p \in ReturnPrograms}
    \cup {Line(TerminatedWords(e)) : e \in SingleExpressions}
    \cup {Line(StatementWords(k, e, t) \o f) :
            k \in StatementForms, e \in Expressions, t \in BOOLEAN,
            f \in {<<>>, <<"y">>}}
    \cup {Line(w) : w \in SeqsUpTo(Vocabulary, MaxWords)}

-----
(* The drivers *)

\* The most lines of one session: the line typed, and each rendering
\* printed fed back as the next line.
Rounds == 3

NoParser == [curToken |-> NoToken, peekToken |-> NoToken, errors |-> <<>>]

\* `new Lexer(input)` then `new Parser(tokenizer)` (lexer.ts 248-249), and
\* the call of parseProgram (251) about to run.
StartParse(input) ==
  LET m == NewParser(NewLexer(input))
  IN  /\ line' = input
      /\ lexer' = m.lexer
      /\ parser' = [curToken |-> m.curToken, peekToken |-> m.peekToken,
                    errors |-> m.errors]
      /\ stack' = <<Frame("parseProgram")>>
      /\ ret' = Null
      /\ status' = "parsing"

Init ==
  \E md \in {"dump", "lex", "render", "repl"} :
    /\ mode = md
    /\ token = NoToken
    /\ calls = 0
    /\ runs = <<>>
    /\ CASE md = "dump" ->
              \E input \in DumpInputs :
                /\ line = input
                /\ lexer = NewLexer(input)
                /\ parser = NoParser
                /\ stack = <<>>
                /\ ret = Null
                /\ status = "lexing"
         [] md = "lex" ->
              \E input \in LexInputs :
                /\ line = input
                /\ lexer = NewLexer(input)
                /\ parser = NoParser
                /\ stack = <<>>
                /\ ret = Null
                /\ status = "lexing"
         [] md = "render" ->
              \E c \in AstChoices :
                /\ line = <<>>
                /\ lexer = NewLexer(<<>>)
                /\ parser = NoParser
                /\ stack = <<>>
                /\ ret = AstNode(c)
                /\ status = "built"
         [] OTHER ->
              \E input \in ReplInputs :
                LET m == NewParser(NewLexer(input))
                IN  /\ line = input
                    /\ lexer = m.lexer
                    /\ parser = [curToken |-> m.curToken, peekToken |-> m.peekToken,
                                 errors |-> m.errors]
                    /\ stack = <<Frame("parseProgram")>>
                    /\ ret = Null
                    /\ status = "parsing"

\* One turn of the token dump loop (part_001 12-18).
DumpStep ==
  /\ mode = "dump"
  /\ status = "lexing"
  /\ calls < MaxCalls
  /\ LET r == LexerNextToken(lexer)
     IN  /\ lexer' = r.lexer
         /\ token' = r.token
         /\ status' = IF r.token.type = "EOF" THEN "stopped" ELSE "lexing"
  /\ calls' = calls + 1
  /\ UNCHANGED <<mode, line, parser, stack, ret, runs>>

\* One call of Lexer.nextToken by a client that goes on calling it, as the
\* lexer's tests do for each token they expect (ast.ts 525-529).
LexStep ==
  /\ mode = "lex"
  /\ calls < MaxCalls
  /\ LET r == LexerNextToken(lexer)
     IN  lexer' = r.lexer /\ token' = r.token
  /\ calls' = calls + 1
  /\ UNCHANGED <<mode, line, parser, stack, ret, status, runs>>

\* program.string() of a tree built by hand (ast.test.ts 6-19).
Render ==
  /\ mode = "render"
  /\ status = "built"
  /\ line' = String(ret)
  /\ status' = "rendered"
  /\ UNCHANGED <<mode, lexer, token, calls, parser, stack, ret, runs>>

\* The Parser with its Lexer, as the parsing methods see them.
Machine ==
  [lexer |-> lexer, curToken |-> parser.curToken, peekToken |-> parser.peekToken,
   errors |-> parser.errors, thrown |-> FALSE]

\* The innermost frame is a frame of method fn, and may run.
Running(fn) ==
  /\ mode = "repl"
  /\ status = "parsing"
  /\ Len(parser.errors) <= MaxErrors
  /\ Head(stack).fn = fn

\* The effect of a step with outcome res.
Apply(res) ==
  /\ lexer' = res.m.lexer
  /\ parser' = [curToken |-> res.m.curToken, peekToken |-> res.m.peekToken,
                errors |-> res.m.errors]
  /\ IF res.m.thrown
     THEN status' = "thrown" /\ UNCHANGED <<stack, ret>>
     ELSE IF res.op = "call"
     THEN /\ stack' = <<res.callee, res.frame>> \o Tail(stack)
          /\ ret' = Null
          /\ status' = status
     ELSE /\ stack' = Tail(stack)
          /\ ret' = res.value
          /\ status' = IF Tail(stack) = <<>> THEN "returned" ELSE status
  /\ UNCHANGED <<mode, line, token, calls, runs>>

ProgramStep == Running("parseProgram") /\ Apply(parseProgram(Machine, Head(stack), ret))

LetStatementStep ==
  Running("parseLetStatement") /\ Apply(parseLetStatement(Machine, Head(stack), ret))

ReturnStatementStep ==
  Running("parseReturnStatement") /\ Apply(parseReturnStatement(Machine, Head(stack), ret))

ExpressionStatementStep ==
  /\ Running("parseExpressionStatement")
  /\ Apply(parseExpressionStatement(Machine, Head(stack), ret))

ExpressionStep ==
  Running("parseExpression") /\ Apply(parseExpression(Machine, Head(stack), ret))

PrefixExpressionStep ==
  Running("parsePrefixExpression") /\ Apply(parsePrefixExpression(Machine, Head(stack), ret))

InfixExpressionStep ==
  Running("parseInfixExpression") /\ Apply(parseInfixExpression(Machine, Head(stack), ret))

GroupedExpressionStep ==
  /\ Running("parseGroupedExpression")
  /\ Apply(parseGroupedExpression(Machine, Head(stack), ret))

IfExpressionStep ==
  Running("parseIfExpression") /\ Apply(parseIfExpression(Machine, Head(stack), ret))

FunctionLiteralStep ==
  Running("parseFunctionLiteral") /\ Apply(parseFunctionLiteral(Machine, Head(stack), ret))

CallExpressionStep ==
  Running("parseCallExpression") /\ Apply(parseCallExpression(Machine, Head(stack), ret))

CallArgumentsStep ==
  Running("parseCallArguments") /\ Apply(parseCallArguments(Machine, Head(stack), ret))

BlockStatementStep ==
  Running("parseBlockStatement") /\ Apply(parseBlockStatement(Machine, Head(stack), ret))

\* parseProgram has returned (lexer.ts 251-259): the driver prints the
\* errors or program.string().
Report ==
  /\ mode = "repl"
  /\ status = "returned"
  /\ runs' = Append(runs, [line |-> line, program |-> ret, errors |-> parser.errors])
  /\ status' = "printed"
  /\ UNCHANGED <<mode, line, lexer, token, calls, parser, stack, ret>>

\* The text printed for a parse without errors is entered as the next line;
\* so is the rendering of each parse that follows.
Resubmit ==
  /\ mode = "repl"
  /\ status = "printed"
  /\ Len(runs) < Rounds
  /\ runs[1].errors = <<>>
  /\ ~StringThrows(ret)
  /\ StartParse(String(ret))
  /\ UNCHANGED <<mode, token, calls, runs>>

Next ==
  \/ DumpStep
  \/ LexStep
  \/ Render
  \/ ProgramStep
  \/ LetStatementStep
  \/ ReturnStatementStep
  \/ ExpressionStatementStep
  \/ ExpressionStep
  \/ PrefixExpressionStep
  \/ InfixExpressionStep
  \/ GroupedExpressionStep
  \/ IfExpressionStep
  \/ FunctionLiteralStep
  \/ CallExpressionStep
  \/ CallArgumentsStep
  \/ BlockStatementStep
  \/ Report
  \/ Resubmit

Spec == Init /\ [][Next]_vars

---------------------------------------------------------------------------
(* Properties *)

\* A parse has just been reported: runs holds the session so far, the line
\* typed first.
Reported == mode = "repl" /\ status = "printed" /\ Len(runs) >= 1

\* The line typed is the line of these words.
Typed(words) == Reported /\ runs[1].line = Line(words)

\* Whether a node of the given kind occurs in the tree.
RECURSIVE HasKind(_, _)
HasKind(node, kind) ==
  \/ node.kind = kind
  \/ CASE node.kind \in {"Program", "BlockStatement"} ->
            \E i \in 1..Len(node.statements) : HasKind(node.statements[i], kind)
       [] node.kind = "LetStatement" -> HasKind(node.value, kind)
       [] node.kind = "ReturnStatement" -> HasKind(node.returnValue, kind)
       [] node.kind = "ExpressionStatement" -> HasKind(node.expression, kind)
       [] node.kind = "FunctionLiteral" -> HasKind(node.body, kind)
       [] node.kind = "IfExpression" ->
            \/ HasKind(node.condition, kind)
            \/ HasKind(node.consequence, kind)
            \/ HasKind(node.alternative, kind)
       [] node.kind = "PrefixExpression" -> HasKind(node.right, kind)
       [] node.kind = "InfixExpression" ->
            HasKind(node.left, kind) \/ HasKind(node.right, kind)
       [] node.kind = "CallExpression" ->
            \/ HasKind(node.function, kind)
            \/ /\ node.arguments # Null
               /\ \E i \in 1..Len(node.arguments.items) :
                    HasKind(node.arguments.items[i], kind)
       [] OTHER -> FALSE

\* C1: a line of N statements `let <identifier> = <integer>;` parses to a
\* Program of exactly N statements, each a LetStatement whose tokenLiteral
\* is "let" and whose name is the i-th identifier, and records no error.
C1_LetStatementsParsed ==
  \A p \in LetPrograms :
    Typed(LetWords(p)) =>
      LET statements == runs[1].program.statements
      IN  /\ Len(statements) = Len(p)
          /\ \A i \in 1..Len(p) :
               /\ statements[i].kind = "LetStatement"
               /\ tokenLiteral(statements[i]) = Spell("let")
               /\ statements[i].name.value = Spell(p[i][1])
          /\ runs[1].errors = <<>>

\* The first statement of the line typed has just been returned to
\* parseProgram.
FirstStatementReturned ==
  /\ mode = "repl"
  /\ status = "parsing"
  /\ runs = <<>>
  /\ Head(stack).fn = "parseProgram"
  /\ Head(stack).pc = 1
  /\ Head(stack).node.statements = <<>>

\* C2: when a statement returns, a `;` that directly followed its expression
\* has been consumed and nothing else has: the current token is that `;`, or
\* the last token of the expression when there was none, and the token after
\* the statement is still the next one.
C2_TerminatorOptional ==
  \A s \in FirstStatements, t \in BOOLEAN, f \in Followers :
    (FirstStatementReturned /\ line = Line(FollowWords(s, t, f))) =>
      /\ parser.curToken.literal = (IF t THEN <<";">> ELSE Spell(s[Len(s)]))
      /\ parser.peekToken.literal = (IF f = <<>> THEN <<>> ELSE Spell(f[1]))

\* C3: `let = <integer>;` records exactly one diagnostic,
\* "expected next token to be IDENT, got = instead", and the Program holds
\* no LetStatement.
C3_OneDiagnostic ==
  \A i \in BadLetIntegers :
    Typed(BadLetWords(i)) =>
      /\ runs[1].errors = <<"expected next token to be IDENT, got = instead">>
      /\ ~HasKind(runs[1].program, "LetStatement")

\* C4: for a current character that is no whitespace, punctuation, letter or
\* digit, nextToken returns an ILLEGAL token whose literal is that character
\* and leaves the lexer just past it.
C4_IllegalCharacterConsumed ==
  [][(mode = "dump" /\ calls' = calls + 1 /\ token'.type = "ILLEGAL") =>
       LET L == skipWhitespace(lexer)
       IN  /\ token'.literal = <<L.ch>>
           /\ lexer'.position = L.position + 1]_vars

\* C5: the token dump loop ends for every line.  A call of nextToken that
\* returns a token other than EOF has to take at least one character for the
\* loop to end, so a loop that ends has made at most one call more than the
\* line has characters.
C5_DumpLoopEnds ==
  (mode = "dump" /\ calls > Len(line)) => status = "stopped"

\* C6: when the line typed parses without errors, its rendering parses
\* without errors too, and to the same statements.
C6_RoundTrip ==
  (Reported /\ Len(runs) >= 2 /\ runs[1].errors = <<>>) =>
    /\ runs[2].errors = <<>>
    /\ runs[2].program.statements = runs[1].program.statements

\* A parse that cannot end: the lexer has met a character it answers ILLEGAL
\* for, or a block is open and the input has run out.
Diverging ==
  /\ mode = "repl"
  /\ status = "parsing"
  /\ \/ parser.peekToken.type = "ILLEGAL"
     \/ /\ parser.curToken.type = "EOF"
        /\ \E i \in 1..Len(stack) : stack[i].fn = "parseBlockStatement"

RECURSIVE Complete(_)
Complete(node) ==
  CASE node.kind \in {"Program", "BlockStatement"} ->
         \A i \in 1..Len(node.statements) :
           node.statements[i] # Null /\ Complete(node.statements[i])
    [] node.kind = "LetStatement" ->
         node.name # Null /\ node.value # Null /\ Complete(node.value)
    [] node.kind = "ReturnStatement" ->
         node.returnValue # Null /\ Complete(node.returnValue)
    [] node.kind = "ExpressionStatement" ->
         node.expression # Null /\ Complete(node.expression)
    [] node.kind = "PrefixExpression" -> node.right # Null /\ Complete(node.right)
    [] node.kind = "InfixExpression" ->
         /\ node.left # Null /\ Complete(node.left)
         /\ node.right # Null /\ Complete(node.right)
    [] node.kind = "IfExpression" ->
         /\ node.condition # Null /\ Complete(node.condition)
         /\ node.consequence # Null /\ Complete(node.consequence)
         /\ node.alternative # Null => Complete(node.alternative)
    [] node.kind = "FunctionLiteral" ->
         node.parameters # Null /\ node.body # Null /\ Complete(node.body)
    [] node.kind = "CallExpression" ->
         /\ node.function # Null /\ Complete(node.function)
         /\ node.arguments # Null
         /\ \A i \in 1..Len(node.arguments.items) :
              node.arguments.items[i] # Null /\ Complete(node.arguments.items[i])
    [] OTHER -> TRUE

\* C8: when parseProgram returns and no error is recorded, no node of the
\* Program lacks a required field.
C8_NoPartialNodes ==
  (mode = "repl" /\ status = "returned" /\ parser.errors = <<>>) => Complete(ret)

C8_CallInFunctionReturned ==
  /\ mode = "repl"
  /\ status = "returned"
  /\ runs = <<>>
  /\ parser.errors = <<>>
  /\ HasKind(ret, "CallExpression")
  /\ HasKind(ret, "InfixExpression")

\* C9: constructing the Parser and running parseProgram never throws: the
\* guard of nextToken never finds peekToken absent, which is defined
\* throughout.
C9_NeverThrows ==
  mode = "repl" => (status # "thrown" /\ parser.peekToken # NoToken)

C9_ReadPastEnd ==
  /\ mode = "repl"
  /\ status = "returned"
  /\ parser.curToken.type = "EOF"
  /\ parser.peekToken.type = "EOF"
  /\ lexer.position > Len(line) + 1

\* The precedence levels as the ordering EQUALS < LESSGREATER < SUM <
\* PRODUCT ranks the binary operators.
Rank(op) ==
  CASE op \in {"==", "!="} -> 1
    [] op \in {"<", ">"} -> 2
    [] op \in {"+", "-"} -> 3
    [] op \in {"*", "/"} -> 4

\* The rendering of a binary operation of two renderings.
Binary(left, op, right) ==
  <<"(">> \o left \o <<" ">> \o Spell(op) \o <<" ">> \o right \o <<")">>

\* The lines of C10 and the grouping each is to render with.
PrecedenceCases ==
  {[line |-> Line(InfixWords(o[1], o[2])),
    text |-> IF Rank(o[1]) < Rank(o[2])
             THEN Binary(<<"a">>, o[1], Binary(<<"b">>, o[2], <<"c">>))
             ELSE Binary(Binary(<<"a">>, o[1], <<"b">>), o[2], <<"c">>)] :
     o \in {q \in BinaryOperators \X BinaryOperators : Rank(q[1]) # Rank(q[2])}}
    \cup {[line |-> Line(PrefixWords(p, o)),
           text |-> Binary(<<"(", p, "a", ")">>, o, <<"b">>)] :
            p \in PrefixOperators, o \in BinaryOperators}
    \cup {[line |-> Line(CallWords(o)),
           text |-> Binary(<<"a">>, o, <<"b", "(", "c", ")">>)] :
            o \in BinaryOperators}
    \cup {[line |-> Line(PrefixCallWords(p)),
           text |-> <<"(", p, "a", "(", "b", ")", ")">>] : p \in PrefixOperators}

\* C10: binding follows EQUALS < LESSGREATER < SUM < PRODUCT < PREFIX < CALL:
\* of two binary operators of different levels the higher one takes the
\* operand between them, a prefix operator takes its operand before any
\* binary operator does, and a call takes its callee before any operator.
C10_PrecedenceOrder ==
  Reported =>
    \A c \in PrecedenceCases :
      runs[1].line = c.line => String(runs[1].program) = c.text

C10_ProductAfterSum ==
  /\ Typed(InfixWords("+", "*"))
  /\ String(runs[1].program) = Spell("(") \o Line(<<"a", "+">>) \o <<" ", "(">>
       \o Line(<<"b", "*", "c">>) \o <<")", ")">>
  /\ runs[1].errors = <<>>

\* The lines of C11 with their operator and operands.
IntegerInfixCases ==
  {[line |-> Line(IntegerInfixWords(i[1], o, j[1])), operator |-> Spell(o),
    left |-> i[2], right |-> j[2]] :
     i \in IntegerChoices, o \in BinaryOperators, j \in IntegerChoices}

\* C11: `<int1> op <int2>`, for each binary operator op, parses to exactly
\* one statement, an ExpressionStatement of an InfixExpression whose
\* operator is op and whose operands are the IntegerLiterals of int1 and
\* int2.
C11_IntegerInfix ==
  Reported =>
    \A c \in IntegerInfixCases :
      runs[1].line = c.line =>
        LET statements == runs[1].program.statements
            expression == statements[1].expression
        IN  /\ Len(statements) = 1
            /\ statements[1].kind = "ExpressionStatement"
            /\ expression.kind = "InfixExpression"
            /\ expression.operator = c.operator
            /\ expression.left.kind = "IntegerLiteral"
            /\ expression.left.value = c.left
            /\ expression.right.kind = "IntegerLiteral"
            /\ expression.right.value = c.right

C11_NotEqualIntegers ==
  /\ Typed(IntegerInfixWords("10", "!=", "838383"))
  /\ runs[1].errors = <<>>
  /\ runs[1].program.statements[1].expression.right.value = 838383

\* C12: a line of N statements `return <integer>;` parses to a Program of
\* exactly N statements, each a ReturnStatement whose tokenLiteral is
\* "return", and records no error.
C12_ReturnStatementsParsed ==
  \A p \in ReturnPrograms :
    Typed(ReturnWords(p)) =>
      LET statements == runs[1].program.statements
      IN  /\ Len(statements) = Len(p)
          /\ \A i \in 1..Len(p) :
               /\ statements[i].kind = "ReturnStatement"
               /\ tokenLiteral(statements[i]) = Spell("return")
          /\ runs[1].errors = <<>>

C12_TwoReturnsReported ==
  /\ Typed(ReturnWords(<<"5", "993322">>))
  /\ Len(runs[1].program.statements) = 2
  /\ runs[1].program.statements[2].returnValue.value = 993322

\* C13: one expression (an identifier, an integer, a boolean or a prefix
\* expression) followed by `;` parses to exactly one statement, an
\* ExpressionStatement whose tokenLiteral is the literal of the expression's
\* first token, and records no diagnostic.
C13_ExpressionStatementParsed ==
  \A e \in SingleExpressions :
    Typed(TerminatedWords(e)) =>
      LET statements == runs[1].program.statements
      IN  /\ Len(statements) = 1
          /\ statements[1].kind = "ExpressionStatement"
          /\ tokenLiteral(statements[1]) = Spell(e[1])
          /\ statements[1].expression # Null
          /\ runs[1].errors = <<>>

C13_PrefixStatementReported ==
  /\ Typed(TerminatedWords(<<"!", "true">>))
  /\ runs[1].program.statements[1].expression.kind = "PrefixExpression"
  /\ parser.curToken.type = "EOF"

\* A call of Lexer.nextToken by the client that keeps calling it.
LexCall == mode = "lex" /\ calls' = calls + 1

\* The character after the one the lexer stands on, "" at the end.
Following(L) ==
  IF L.position + 1 < Len(line) THEN CharAt(line, L.position + 1) ELSE ""

\* C14: once nextToken has returned a token of kind EOF, every later call
\* returns a token of kind EOF with an empty literal.
C14_EndOfInputRepeats ==
  [][(LexCall /\ token.type = "EOF") => token' = [type |-> "EOF", literal |-> <<>>]]_vars

C14_ThirdEndOfInput ==
  /\ mode = "lex"
  /\ line # <<>>
  /\ token.type = "EOF"
  /\ lexer.position >= Len(line) + 3

\* C15: `=` (or `!`) directly followed by `=` is lexed as EQ "==" (NOT_EQ
\* "!=") and both characters are consumed; followed by anything else,
\* whitespace and the end of input included, it is lexed as ASSIGN (BANG)
\* with a one-character literal, and the character that follows starts the
\* next token.
C15_TwoCharacterOperators ==
  [][LET L == skipWhitespace(lexer)
     IN  (LexCall /\ L.ch \in {"=", "!"}) =>
           IF Following(L) = "="
           THEN /\ token' = [type |-> IF L.ch = "=" THEN "==" ELSE "!=",
                             literal |-> <<L.ch, "=">>]
                /\ lexer'.position = L.position + 2
           ELSE /\ token' = [type |-> L.ch, literal |-> <<L.ch>>]
                /\ lexer'.position = L.position + 1
                /\ lexer'.ch = Following(L)]_vars

C15_NotEqualThenSpace ==
  /\ mode = "lex"
  /\ token = [type |-> "!=", literal |-> <<"!", "=">>]
  /\ lexer.ch = " "
  /\ calls = 1

\* The kind the seven keywords and every other identifier text are to get.
KeywordOrIdent(literal) ==
  CASE literal = Spell("fn") -> "FUNCTION"
    [] literal = Spell("let") -> "LET"
    [] literal = Spell("true") -> "TRUE"
    [] literal = Spell("false") -> "FALSE"
    [] literal = Spell("if") -> "IF"
    [] literal = Spell("else") -> "ELSE"
    [] literal = Spell("return") -> "RETURN"
    [] OTHER -> "IDENT"

PunctuationTestTokens ==
  << [type |-> "=", literal |-> <<"=">>], [type |-> "+", literal |-> <<"+">>],
     [type |-> "(", literal |-> <<"(">>], [type |-> ")", literal |-> <<")">>],
     [type |-> "{", literal |-> <<"{">>], [type |-> "}", literal |-> <<"}">>],
     [type |-> ",", literal |-> <<",">>], [type |-> ";", literal |-> <<";">>],
     [type |-> "EOF", literal |-> <<>>] >>

\* C17: each of + - * / < > , ; ( ) { }, and each `=` or `!` not followed by
\* `=`, is lexed as one token of its kind whose literal is that character,
\* and the end of the input as EOF with an empty literal; `=+(){},;` lexes
\* to ASSIGN, PLUS, LPAREN, RPAREN, LBRACE, RBRACE, COMMA, SEMICOLON, EOF.
C17_PunctuationTokens ==
  [][LET L == skipWhitespace(lexer)
     IN  LexCall =>
           /\ (\/ L.ch \in {"+", "-", "*", "/", "<", ">", ",", ";", "(", ")", "{", "}"}
               \/ (L.ch \in {"=", "!"} /\ Following(L) # "=")) =>
                (/\ token' = [type |-> L.ch, literal |-> <<L.ch>>]
                 /\ lexer'.position = L.position + 1)
           /\ L.position >= Len(line) => token' = [type |-> "EOF", literal |-> <<>>]
           /\ (line = PunctuationTestInput /\ calls < Len(PunctuationTestTokens)) =>
                token' = PunctuationTestTokens[calls']]_vars

C17_TestInputLexed ==
  /\ mode = "lex"
  /\ line = PunctuationTestInput
  /\ calls = Len(PunctuationTestTokens)
  /\ token.type = "EOF"

\* A tree built by hand has been rendered: line holds its string().
Rendered == mode = "render" /\ status = "rendered"

\* The text a statement is to render as: `let <name> = <value>;`,
\* `return <value>;`, or the value of an expression statement.
StatementText(c) ==
  CASE c[1] = "let" -> Line(<<"let", c[2], "=", c[3]>>) \o <<";">>
    [] c[1] = "return" -> Line(<<"return", c[3]>>) \o <<";">>
    [] OTHER -> Spell(c[3])

\* The statements' texts one after the other, with nothing between them.
RECURSIVE StatementsText(_)
StatementsText(choices) ==
  IF choices = <<>> THEN <<>>
  ELSE StatementText(Head(choices)) \o StatementsText(Tail(choices))

\* The Programs and BlockStatements built, each with the text of its
\* statements.
StatementsCases ==
  {[node |-> AstNode(c), text |-> StatementsText(c.statements)] :
     c \in {d \in AstChoices : d.root \in {"Program", "BlockStatement"}}}

\* C18: the string() of a Program and of a BlockStatement is its statements'
\* renderings one after the other with nothing between or around them; a
\* LetStatement renders as `let <name> = <value>;` and a ReturnStatement as
\* `return <value>;`.
C18_StatementsConcatenated ==
  Rendered => \A c \in StatementsCases : ret = c.node => line = c.text

C18_TestProgramRendered ==
  /\ Rendered
  /\ ret = Program(<<StatementNode(<<"let", "myVar", "otherVar">>),
                     StatementNode(<<"return", "", "myVar">>)>>)
  /\ line = Spell("let") \o <<" ">> \o Spell("myVar") \o <<" ", "=", " ">>
              \o Spell("otherVar") \o <<";">> \o Spell("return") \o <<" ">>
              \o Spell("myVar") \o <<";">>

\* The IfExpressions built, each with the text `if <cond> <consequence>`
\* and, when it has an alternative, ` else <alternative>`.
IfCases ==
  {[node |-> AstNode(c),
    text |-> Spell("if") \o <<" ">> \o Spell(c.condition) \o <<" ">>
               \o StatementsText(c.statements)
               \o (IF c.else
                   THEN <<" ">> \o Spell("else") \o <<" ">>
                          \o StatementsText(c.alternative)
                   ELSE <<>>)] :
     c \in {d \in AstChoices : d.root = "IfExpression"}}

\* C19: an IfExpression with an alternative renders exactly as
\* `if <cond> <consequence> else <alternative>`, and one without as
\* `if <cond> <consequence>`, with nothing after it.
C19_IfRendering ==
  Rendered => \A c \in IfCases : ret = c.node => line = c.text

\* parseBlockStatement's loop has just called parseStatement.
BlockLoopIterates ==
  /\ mode = "repl"
  /\ status = "parsing"
  /\ Len(stack) >= 2
  /\ stack[2].fn = "parseBlockStatement"
  /\ stack[1].pc = 0

\* C20: parseBlockStatement's loop ends as soon as the current token is `}`
\* or EOF: it starts no statement on either, so a block left open at the end
\* of the input ends there and parseProgram returns.
C20_BlockEndsAtEndOfInput ==
  BlockLoopIterates => parser.curToken.type \notin {"}", "EOF"}

\* The characters Lexer.nextToken has a token other than ILLEGAL for, and
\* the ones it skips.
LegalCharacters == Letters \cup Digits \cup Punctuation \cup Whitespace

\* How many `}` of the text have no `{` before them to close, the text
\* scanned from its end; -1 once a `{` has no `}` after it left to match.
RECURSIVE ClosersLeft(_)
ClosersLeft(text) ==
  IF text = <<>> THEN 0
  ELSE LET rest == ClosersLeft(Tail(text))
       IN  IF rest = -1 THEN -1
           ELSE IF Head(text) = "}" THEN rest + 1
           ELSE IF Head(text) = "{" THEN rest - 1
           ELSE rest

\* Only legal characters, and every `{` matched by a later `}`.
LegalAndMatched(text) ==
  /\ \A i \in 1..Len(text) : text[i] \in LegalCharacters
  /\ ClosersLeft(text) # -1

\* C21: for a line of legal characters only in which every `{` is matched by
\* a later `}`, parseProgram returns after finitely many token advances: the
\* parse never comes to a state it cannot return from, the current token EOF
\* (every token read from then on is EOF) inside a block, whose loop ends on
\* `}` alone.
C21_ParseProgramTerminates ==
  Diverging => ~LegalAndMatched(line)

\* The lines `a op1 b op2 c` whose operators are of one level.
AssociativityCases ==
  {[line |-> Line(InfixWords(o[1], o[2])), op1 |-> Spell(o[1]), op2 |-> Spell(o[2])] :
     o \in {q \in BinaryOperators \X BinaryOperators : Rank(q[1]) = Rank(q[2])}}

\* C22: binary operators are left-associative: for op1 and op2 of one
\* precedence level, the same operator twice included, `a op1 b op2 c`
\* parses to one statement whose expression is the InfixExpression of op2
\* with the InfixExpression `a op1 b` on its left and `c` on its right.
C22_LeftAssociative ==
  Reported =>
    \A c \in AssociativityCases :
      runs[1].line = c.line =>
        LET statements == runs[1].program.statements
            expression == statements[1].expression
        IN  /\ Len(statements) = 1
            /\ expression.kind = "InfixExpression"
            /\ expression.operator = c.op2
            /\ expression.left.kind = "InfixExpression"
            /\ expression.left.operator = c.op1
            /\ expression.left.left = Identifier(NewToken("IDENT", <<"a">>), <<"a">>)
            /\ expression.left.right = Identifier(NewToken("IDENT", <<"b">>), <<"b">>)
            /\ expression.right = Identifier(NewToken("IDENT", <<"c">>), <<"c">>)
            /\ runs[1].errors = <<>>

C22_DifferenceThenSum ==
  /\ Typed(InfixWords("-", "+"))
  /\ String(runs[1].program) = Binary(Binary(<<"a">>, "-", <<"b">>), "+", <<"c">>)
  /\ runs[1].program.statements[1].expression.left.operator = <<"-">>

\* The places where a step of a parsing method is one call of expectPeek and
\* the return that follows it: the method, where it resumes, the kind it
\* expects, and whether that holds of the successful call too (elsewhere
\* the method goes on to advance or call expectPeek again within the step).
ExpectPeekCalls ==
  { [fn |-> "parseGroupedExpression", pc |-> 1, kind |-> ")", success |-> TRUE],
    [fn |-> "parseCallArguments", pc |-> 1, kind |-> ")", success |-> TRUE],
    [fn |-> "parseLetStatement", pc |-> 0, kind |-> "IDENT", success |-> FALSE],
    [fn |-> "parseIfExpression", pc |-> 0, kind |-> "(", success |-> FALSE],
    [fn |-> "parseFunctionLiteral", pc |-> 0, kind |-> "(", success |-> FALSE] }

\* The innermost frame is about to make the call c of expectPeek.
Expecting(c) ==
  /\ mode = "repl"
  /\ status = "parsing"
  /\ Head(stack).fn = c.fn
  /\ Head(stack).pc = c.pc
  /\ c.fn = "parseCallArguments" => parser.peekToken.type # ","
  /\ ~c.success => parser.peekToken.type # c.kind

\* C23: expectPeek(kind), when peekToken's kind is kind, advances the window
\* by exactly one token (curToken becomes the old peekToken, peekToken the
\* lexer's next token), leaves errors unchanged and returns true; otherwise
\* it appends exactly the diagnostic "expected next token to be <kind>, got
\* <peekToken's kind> instead", leaves curToken, peekToken and the lexer
\* unchanged and returns false, on which the caller returns null.
C23_ExpectPeekFrame ==
  [][\A c \in ExpectPeekCalls :
       Expecting(c) =>
         IF parser.peekToken.type = c.kind
         THEN /\ expectPeek(Machine, c.kind).ok
              /\ parser'.curToken = parser.peekToken
              /\ parser'.peekToken = LexerNextToken(lexer).token
              /\ lexer' = LexerNextToken(lexer).lexer
              /\ parser'.errors = parser.errors
         ELSE /\ ~expectPeek(Machine, c.kind).ok
              /\ parser'.errors =
                   Append(parser.errors,
                          "expected next token to be " \o c.kind \o ", got "
                            \o parser.peekToken.type \o " instead")
              /\ parser'.curToken = parser.curToken
              /\ parser'.peekToken = parser.peekToken
              /\ lexer' = lexer
              /\ ret' = Null
              /\ stack' = Tail(stack)]_vars

C23_GroupLeftOpen ==
  /\ Typed(<<"(", "x">>)
  /\ runs[1].errors = <<"expected next token to be ), got EOF instead">>
  /\ parser.curToken.type = "EOF"

\* The methods that parse a construct and call expectPeek; the parameter
\* list is parsed within parseFunctionLiteral's step.  In a step of one of
\* them nothing but a failing expectPeek records an error.
ExpectingMethods ==
  {"parseLetStatement", "parseGroupedExpression", "parseIfExpression",
   "parseFunctionLiteral", "parseCallArguments"}

\* C24: when a call of expectPeek fails while a let statement, a grouped
\* expression, an if expression, a function literal or its parameter list,
\* or a call or its argument list is being parsed, the construct yields no
\* node: the method that made the call returns null, and a call expression
\* whose argument list failed returns null too.
C24_FailedConstructYieldsNoNode ==
  [][(mode = "repl" /\ status = "parsing") =>
       /\ (Head(stack).fn \in ExpectingMethods /\ parser'.errors # parser.errors) =>
            (ret' = Null /\ stack' = Tail(stack))
       /\ (Head(stack).fn = "parseCallExpression" /\ Head(stack).pc = 1 /\ ret = Null) =>
            ret' = Null]_vars

\* The infix handlers, which parseExpression calls with the expression on
\* the left.
InfixHandlers == {"parseInfixExpression", "parseCallExpression"}

\* C25: when the prefix step of parseExpression yields no expression,
\* parseExpression calls no infix handler: no infix handler is entered with
\* an absent expression on the left, so no InfixExpression is built with an
\* absent left operand and no CallExpression with an absent callee.
C25_NoInfixOnAbsentLeft ==
  (/\ mode = "repl"
   /\ status = "parsing"
   /\ Head(stack).fn \in InfixHandlers
   /\ Head(stack).pc = 0) => Head(stack).node # Null

\* Whether the tree holds a FunctionLiteral one of whose parameters was
\* built from a token that is no IDENT.
RECURSIVE HasOddParameter(_)
HasOddParameter(node) ==
  CASE node.kind \in {"Program", "BlockStatement"} ->
         \E i \in 1..Len(node.statements) : HasOddParameter(node.statements[i])
    [] node.kind = "LetStatement" -> HasOddParameter(node.value)
    [] node.kind = "ReturnStatement" -> HasOddParameter(node.returnValue)
    [] node.kind = "ExpressionStatement" -> HasOddParameter(node.expression)
    [] node.kind = "FunctionLiteral" ->
         \/ /\ node.parameters # Null
            /\ \E i \in 1..Len(node.parameters.items) :
                 node.parameters.items[i].token.type # "IDENT"
         \/ HasOddParameter(node.body)
    [] node.kind = "IfExpression" ->
         \/ HasOddParameter(node.condition)
         \/ HasOddParameter(node.consequence)
         \/ HasOddParameter(node.alternative)
    [] node.kind = "PrefixExpression" -> HasOddParameter(node.right)
    [] node.kind = "InfixExpression" ->
         HasOddParameter(node.left) \/ HasOddParameter(node.right)
    [] node.kind = "CallExpression" ->
         \/ HasOddParameter(node.function)
         \/ /\ node.arguments # Null
            /\ \E i \in 1..Len(node.arguments.items) :
                 HasOddParameter(node.arguments.items[i])
    [] OTHER -> FALSE

\* C26: every entry of a FunctionLiteral's parameters is built from an IDENT
\* token: a parse that put any other token in a parameter position, as in
\* `fn(5) { }`, has recorded a diagnostic and does not end with errors empty.
C26_ParametersAreIdentifiers ==
  (mode = "repl" /\ status = "returned" /\ HasOddParameter(ret)) => parser.errors # <<>>

\* Whether the lexer's output stream, read on from lexer L whose last token
\* was `last`, comes to hold the tokens cur and peek one after the other,
\* with the lexer in state lex once peek is read.
RECURSIVE InStream(_, _, _, _, _)
InStream(L, last, cur, peek, lex) ==
  LET r == LexerNextToken(L)
  IN  \/ last = cur /\ r.token = peek /\ r.lexer = lex
      \/ /\ r.lexer # L
         /\ r.lexer.position <= lex.position
         /\ InStream(r.lexer, r.token, cur, peek, lex)

\* C27: in every state of the parser curToken and peekToken are two
\* consecutive tokens of the stream the lexer gives for the line, and the
\* lexer has read up to peekToken and no further: the constructor reads two
\* tokens, nextToken shifts by one and reads one, and nothing else moves
\* the window or reads the lexer.
C27_WindowConsecutive ==
  mode = "repl" =>
    LET first == LexerNextToken(NewLexer(line))
    IN  InStream(first.lexer, first.token, parser.curToken, parser.peekToken, lexer)

C27_WindowOnSecondLet ==
  /\ FirstStatementReturned
  /\ line = Line(<<"let", "x", "=", "5", "let", "y", "=", "7">>)
  /\ parser.curToken.type = "LET"
  /\ parser.peekToken.literal = <<"y">>

\* The text without its spaces, tabs, newlines and carriage returns.
Strip(text) == SelectSeq(text, LAMBDA c : c \notin Whitespace)

\* The literals of the tokens the first n calls of nextToken return from
\* lexer L on, one after the other.
RECURSIVE Literals(_, _)
Literals(L, n) ==
  IF n = 0 THEN <<>>
  ELSE LET r == LexerNextToken(L)
       IN  r.token.literal \o Literals(r.lexer, n - 1)

\* C28: for a line of legal characters only, the literals of the tokens
\* returned by the successive calls of nextToken up to EOF, concatenated in
\* order, are the line without its whitespace: the lexer drops, duplicates
\* and alters no other character.
C28_LiteralsConcatenate ==
  (/\ mode \in {"dump", "lex"}
   /\ calls >= 1
   /\ token.type = "EOF"
   /\ \A i \in 1..Len(line) : line[i] \in LegalCharacters) =>
    Literals(NewLexer(line), calls) = Strip(line)

C28_TabbedLineDumped ==
  /\ mode = "dump"
  /\ status = "stopped"
  /\ line = <<"a", "\t", "a">>
  /\ calls = 3
  /\ Literals(NewLexer(line), 2) = <<"a", "a">>

====
